---- MODULE Spec2Model ----
(***************************************************************************)
(* Data-availability clients of via-core-ext: the in-memory backend        *)
(* (clients/da_clients/in_memory/mod.rs), the Celestia backend             *)
(* (clients/da_clients/celestia/mod.rs), the blob-id codec                 *)
(* (clients/da_clients/common.rs) and the chunk envelope                   *)
(* (clients/da_clients/types.rs).                                          *)
(*                                                                         *)
(* A Vec<u8> is a sequence of numbers 0..255.  A String is a sequence of   *)
(* one-character strings.  A call's result is a record with a "kind":      *)
(*   "ok"    the call returned Ok(v) / Ok(Some(v)), v in field val         *)
(*   "none"  the call returned Ok(None)                                    *)
(*   "err"   the call returned Err(DAError), with field is_retriable       *)
(*   "panic" the call panicked (slice index out of range, unwrap of a      *)
(*           poisoned lock) and returned nothing                           *)
(***************************************************************************)
EXTENDS Integers, Sequences, FiniteSets, TLC

VARIABLES backend, heap, handles, chain, last, calls

vars == <<backend, heap, handles, chain, last, calls>>

(***************************************************************************)
(* Bounds of the model.                                                    *)
(***************************************************************************)
MaxStored == 4
MaxHeight == 2
MaxHandles == 3
NumCalls == 3

(***************************************************************************)
(* Results.                                                                *)
(***************************************************************************)
Ok(v) == [kind |-> "ok", val |-> v]

NoneResult == [kind |-> "none"]

Err(retriable) == [kind |-> "err", is_retriable |-> retriable]

Panic == [kind |-> "panic"]

(***************************************************************************)
(* Slices.  data[from..to) in Rust panics when to > len or from > to; the  *)
(* callers below test InRange first and panic when it fails.               *)
(***************************************************************************)
InRange(bytes, from, to) == from <= to /\ to <= Len(bytes)

Slice(bytes, from, to) == [i \in 1..(to - from) |-> bytes[from + i]]

RECURSIVE Concat(_)
Concat(seqs) ==
    IF seqs = <<>> THEN <<>> ELSE Head(seqs) \o Concat(Tail(seqs))

(***************************************************************************)
(* Fixed-width integers.  n.to_be_bytes(), from_be_bytes, and bincode's    *)
(* fixed-width little-endian u64.  Values stay below 2^31 in this model.   *)
(***************************************************************************)
RECURSIVE to_be_bytes(_, _)
to_be_bytes(n, width) ==
    IF width = 0 THEN <<>>
    ELSE Append(to_be_bytes(n \div 256, width - 1), n % 256)

RECURSIVE from_be_bytes(_)
from_be_bytes(bytes) ==
    IF bytes = <<>> THEN 0
    ELSE from_be_bytes(SubSeq(bytes, 1, Len(bytes) - 1)) * 256 + bytes[Len(bytes)]

RECURSIVE to_le_bytes(_, _)
to_le_bytes(n, width) ==
    IF width = 0 THEN <<>>
    ELSE <<n % 256>> \o to_le_bytes(n \div 256, width - 1)

RECURSIVE from_le_bytes(_)
from_le_bytes(bytes) ==
    IF bytes = <<>> THEN 0
    ELSE Head(bytes) + 256 * from_le_bytes(Tail(bytes))

(***************************************************************************)
(* hex::encode and hex::decode.  encode writes two lowercase digits per    *)
(* byte; decode rejects an odd length and any character that is not a hex  *)
(* digit, and accepts both cases.                                          *)
(***************************************************************************)
HexLower ==
    <<"0", "1", "2", "3", "4", "5", "6", "7", "8", "9", "a", "b", "c", "d", "e", "f">>

HexUpper ==
    <<"0", "1", "2", "3", "4", "5", "6", "7", "8", "9", "A", "B", "C", "D", "E", "F">>

HexDigits == {HexLower[i] : i \in 1..16} \cup {HexUpper[i] : i \in 1..16}

HexValues ==
    [c \in HexDigits |-> (CHOOSE i \in 1..16 : HexLower[i] = c \/ HexUpper[i] = c) - 1]

IsHexDigit(c) == c \in HexDigits

HexValue(c) == HexValues[c]

hex_encode(bytes) ==
    [i \in 1..(2 * Len(bytes)) |->
        IF i % 2 = 1 THEN HexLower[(bytes[(i + 1) \div 2] \div 16) + 1]
        ELSE HexLower[(bytes[i \div 2] % 16) + 1]]

FromHexError == [kind |-> "from_hex_error"]

hex_decode(s) ==
    IF Len(s) % 2 # 0 THEN FromHexError
    ELSE IF \E i \in 1..Len(s) : ~IsHexDigit(s[i]) THEN FromHexError
    ELSE Ok([i \in 1..(Len(s) \div 2) |->
                16 * HexValue(s[2 * i - 1]) + HexValue(s[2 * i])])

(***************************************************************************)
(* ViaDaBlob { chunks: usize, data: Vec<u8> } and its bincode form: chunks *)
(* as 8 little-endian bytes, the length of data as 8 little-endian bytes,  *)
(* then data.  bincode::deserialize fails on a short input and ignores     *)
(* bytes after the value.                                                  *)
(***************************************************************************)
ViaDaBlob_new(chunks, data) == [chunks |-> chunks, data |-> data]

to_bytes(blob) ==
    to_le_bytes(blob.chunks, 8) \o to_le_bytes(Len(blob.data), 8) \o blob.data

from_bytes(bytes) ==
    IF ~InRange(bytes, 0, 16) THEN NoneResult
    ELSE LET chunks == from_le_bytes(Slice(bytes, 0, 8))
             n == from_le_bytes(Slice(bytes, 8, 16))
         IN  IF ~InRange(bytes, 16, 16 + n) THEN NoneResult
             ELSE Ok(ViaDaBlob_new(chunks, Slice(bytes, 16, 16 + n)))

(***************************************************************************)
(* serialize_blob_ids: per identifier, hex-decode it, write its length as  *)
(* 4 big-endian bytes, then its bytes.                                     *)
(***************************************************************************)
RECURSIVE serialize_blob_ids(_)
serialize_blob_ids(hex_vec) ==
    IF hex_vec = <<>> THEN Ok(<<>>)
    ELSE LET bytes == hex_decode(Head(hex_vec))
             rest == serialize_blob_ids(Tail(hex_vec))
         IN  IF bytes.kind # "ok" THEN Err(FALSE)
             ELSE IF rest.kind # "ok" THEN rest
             ELSE Ok(to_be_bytes(Len(bytes.val), 4) \o bytes.val \o rest.val)

(***************************************************************************)
(* deserialize_blob_ids: while pos < data.len(), read data[pos..pos + 4]   *)
(* as a big-endian length, then data[pos..pos + len].  Both slices panic   *)
(* when they run past the end of data; the try_into of a 4-byte slice      *)
(* cannot fail, so the function returns Ok or panics.                      *)
(***************************************************************************)
RECURSIVE deserialize_from(_, _, _)
deserialize_from(data, pos, result) ==
    IF ~(pos < Len(data)) THEN Ok(result)
    ELSE IF ~InRange(data, pos, pos + 4) THEN Panic
    ELSE LET len == from_be_bytes(Slice(data, pos, pos + 4))
         IN  IF ~InRange(data, pos + 4, pos + 4 + len) THEN Panic
             ELSE deserialize_from(data, pos + 4 + len,
                      Append(result, hex_encode(Slice(data, pos + 4, pos + 4 + len))))

deserialize_blob_ids(data) == deserialize_from(data, 0, <<>>)

(***************************************************************************)
(* The blob id: [block_height (8 bytes, big-endian) | commitment hash      *)
(* (32 bytes)], hex-encoded.                                               *)
(***************************************************************************)
\* A faulty make_blob_id: the commitment hash is left out of the identifier.
make_blob_id_height_only(block_height, hash) ==
    hex_encode(to_be_bytes(block_height, 8))

make_blob_id(block_height, hash) == hex_encode(to_be_bytes(block_height, 8) \o hash)

(***************************************************************************)
(* parse_blob_id: hex-decode, then blob_id_bytes[..8] and                  *)
(* blob_id_bytes[8..40].  A hex error is a fatal DAError; a slice past the *)
(* end panics before try_into runs, and try_into of an exact slice cannot  *)
(* fail.                                                                   *)
(***************************************************************************)
\* A faulty parse_blob_id: the commitment is read from the last 32 bytes
\* instead of bytes 8..40.
parse_blob_id_last32(blob_id) ==
    LET blob_id_bytes == hex_decode(blob_id)
    IN  IF blob_id_bytes.kind # "ok" THEN Err(FALSE)
        ELSE IF ~InRange(blob_id_bytes.val, 0, 8) THEN Panic
        ELSE IF ~InRange(blob_id_bytes.val, 8, 40) THEN Panic
        ELSE Ok([commitment |-> Slice(blob_id_bytes.val,
                                      Len(blob_id_bytes.val) - 32,
                                      Len(blob_id_bytes.val)),
                 block_height |-> from_be_bytes(Slice(blob_id_bytes.val, 0, 8))])

parse_blob_id(blob_id) ==
    LET blob_id_bytes == hex_decode(blob_id)
    IN  IF blob_id_bytes.kind # "ok" THEN Err(FALSE)
        ELSE IF ~InRange(blob_id_bytes.val, 0, 8) THEN Panic
        ELSE IF ~InRange(blob_id_bytes.val, 8, 40) THEN Panic
        ELSE Ok([commitment |-> Slice(blob_id_bytes.val, 8, 40),
                 block_height |-> from_be_bytes(Slice(blob_id_bytes.val, 0, 8))])

(***************************************************************************)
(* Commitment::from_blob(namespace, data, SHARE_VERSION_ZERO, None, V5)    *)
(* of celestia_types: a 32-byte digest of the data under the fixed         *)
(* namespace.  The digest is collision-resistant; here it is an injective  *)
(* numbering of the payloads of the model, spread over 32 bytes.           *)
(*                                                                         *)
(* LeafBlobs are payloads a pointer blob may list; the other payloads are  *)
(* built from the leaves' identifiers.                                     *)
(***************************************************************************)
Leaf1 == <<1>>

Leaf2 == <<2, 3>>

WrappedLeaf == to_bytes(ViaDaBlob_new(1, <<7>>))

LeafBlobs == <<Leaf1, Leaf2, WrappedLeaf>>

Digest(rank) == [i \in 1..32 |-> (rank * 37 + i * 11) % 256]

IndexOf(seq, x) == CHOOSE i \in 1..Len(seq) : seq[i] = x

LeafId(leaf) == make_blob_id(0, Digest(IndexOf(LeafBlobs, leaf)))

PointerBlob(chunks, leaves) ==
    to_bytes(ViaDaBlob_new(chunks,
        serialize_blob_ids([i \in 1..Len(leaves) |-> LeafId(leaves[i])]).val))

\* The leaf lists of the pointer blobs: two leaves in either order, and three
\* leaves of which one reads as a ViaDaBlob itself.
ChunkLists ==
    {<<Leaf1, Leaf2>>, <<Leaf2, Leaf1>>, <<Leaf1, WrappedLeaf, Leaf2>>}

Pointers == {PointerBlob(Len(l), l) : l \in ChunkLists}

\* 16 zero bytes: a raw payload that reads as ViaDaBlob {chunks: 0, data: []}.
ZeroBlob == [i \in 1..16 |-> 0]

\* 16 bytes whose length field asks for 5 more bytes: not a ViaDaBlob.
RawBlob == to_le_bytes(0, 8) \o to_le_bytes(5, 8)

\* chunks = 3 over a list of two identifiers.
MismatchBlob == PointerBlob(3, <<Leaf1, Leaf2>>)

\* chunks = 2 over a list cut after three bytes.
TruncatedBlob == to_bytes(ViaDaBlob_new(2, <<0, 0, 0>>))

SetToSeq(S) ==
    LET n == Cardinality(S)
    IN  CHOOSE f \in [1..n -> S] : \A x \in S : \E i \in 1..n : f[i] = x

OtherBlobs ==
    <<ZeroBlob, RawBlob, MismatchBlob, TruncatedBlob>> \o SetToSeq(Pointers)

AllBlobs == LeafBlobs \o OtherBlobs

Payloads == {AllBlobs[i] : i \in 1..Len(AllBlobs)}

\* The namespace, share version and app version are fixed at construction and
\* no signer is passed, so the call is taken to return Ok for every payload;
\* the callers keep their map_err branch.
Commitment_from_blob(data) == Ok(Digest(IndexOf(AllBlobs, data)))

\* Blob::new(namespace, data, None, app_version) of celestia_types, likewise.
Blob_new(data) == Ok([data |-> data])

(***************************************************************************)
(* Inputs of the calls.                                                    *)
(***************************************************************************)
BatchNumbers == {1, 2}

Str_deadbeef == <<"d", "e", "a", "d", "b", "e", "e", "f">>

Str_does_not_exist ==
    <<"d", "o", "e", "s", "_", "n", "o", "t", "_", "e", "x", "i", "s", "t">>

\* Not hex, odd length, and hex of 0, 4 and 10 bytes.
MalformedIds ==
    {Str_does_not_exist, <<"a", "b", "c">>, <<>>, Str_deadbeef,
     hex_encode([i \in 1..10 |-> i])}

BlobIdOf(data) == make_blob_id(0, Commitment_from_blob(data).val)

InMemoryIds == {BlobIdOf(d) : d \in Payloads} \cup MalformedIds

\* The payloads sent to the network, and the height of the network's head
\* when the client connects.
CelestiaPayloads == {Leaf1, Leaf2}

FirstHeight == 256

Heights == (FirstHeight + 1)..(FirstHeight + MaxHeight)

ToUpper(s) ==
    [i \in 1..Len(s) |->
        IF \E j \in 1..16 : HexLower[j] = s[i]
        THEN HexUpper[CHOOSE j \in 1..16 : HexLower[j] = s[i]]
        ELSE s[i]]

CelestiaIds ==
    {make_blob_id(h, Commitment_from_blob(d).val) :
        h \in Heights, d \in CelestiaPayloads} \cup MalformedIds

\* Identifiers handed to parse_blob_id: locators of positions and
\* commitments, with and without bytes after the 40th, in either case.
Positions == {0, 1, 258, 2147483647}

Commitments == {Digest(1), [i \in 1..32 |-> 255], [i \in 1..32 |-> 0]}

Trailers == {<<>>, <<9>>, <<0, 255>>}

Locator(position, commitment, trailer) ==
    hex_encode(to_be_bytes(position, 8) \o commitment \o trailer)

LocatorIds ==
    {Locator(p, c, t) : p \in Positions, c \in Commitments, t \in Trailers}

ParseIds ==
    LocatorIds \cup {ToUpper(Locator(258, Digest(1), <<>>))} \cup MalformedIds

(***************************************************************************)
(* State.                                                                  *)
(*   backend   config.da_backend: the client make_da_client built          *)
(*   heap      the Arc allocations, each a Mutex<HashMap<String, Vec<u8>>>:*)
(*             data (blob id -> bytes), poisoned (a thread panicked while  *)
(*             it held the guard), locked (a guard is alive)               *)
(*   handles   the InMemoryClient values alive; field storage is an Arc,   *)
(*             the index of its allocation in heap                         *)
(*   chain     the blobs the Celestia network accepted, oldest first; the  *)
(*             i-th was included at height FirstHeight + i                 *)
(*   last      the last call that ended: the handle it was made on, its    *)
(*             name, its arguments, the fate of its request to the node    *)
(*             ("none" when it made no request) and its result             *)
(*   calls     the calls in progress, one per task, and where each is      *)
(***************************************************************************)
EmptyMap == [k \in {} |-> <<>>]

Call(op, batch_number, arg, out) ==
    [handle |-> 1, op |-> op, batch_number |-> batch_number, arg |-> arg,
     rpc |-> "none", out |-> out]

\* Mutex::new(value).
Mutex_new(value) == [data |-> value, poisoned |-> FALSE, locked |-> FALSE]

\* Arc::new(value): a new allocation, and the pointer to it.
Arc_new(allocations, value) ==
    [heap |-> Append(allocations, value), arc |-> Len(allocations) + 1]

\* Arc::clone: a pointer to the same allocation.
Arc_clone(arc) == arc

\* InMemoryClient::new: storage: Arc::new(Mutex::new(HashMap::new())).
InMemoryClient_new == Arc_new(<<>>, Mutex_new(EmptyMap))

\* #[derive(Clone)] of InMemoryClient: each field cloned.
InMemoryClient_clone(client) == [storage |-> Arc_clone(client.storage)]

\* The map and the poison flag behind the handle make_da_client returned.
storage == heap[handles[1].storage].data

poisoned == heap[handles[1].storage].poisoned

\* The names of the handles there can be.
Clients == 1..MaxHandles

\* The tasks that make calls side by side.
Tasks == 1..NumCalls

Idle ==
    [pc |-> "idle", self |-> 1, op |-> "none", batch_number |-> 0,
     arg |-> <<>>, blob_id |-> <<>>, out |-> NoneResult]

Init ==
    /\ backend \in {"InMemory", "Celestia"}
    /\ heap = InMemoryClient_new.heap
    /\ handles = <<[storage |-> InMemoryClient_new.arc]>>
    /\ chain = <<>>
    /\ last = Call("new", 0, <<>>, Ok(<<>>))
    /\ calls = [c \in Tasks |-> Idle]

\* HashMap::insert: the entry for key, new or overwritten.
Insert(map, key, value) ==
    [k \in DOMAIN map \cup {key} |-> IF k = key THEN value ELSE map[k]]

\* The end of a MutexGuard: the lock is released, and the Mutex is poisoned
\* if the thread is panicking.
MutexGuard_drop(mutex, panicking) ==
    [mutex EXCEPT !.locked = FALSE, !.poisoned = @ \/ panicking]

(***************************************************************************)
(* InMemoryClient::dispatch_blob.  The commitment and the blob id are      *)
(* computed first; storage.lock().unwrap() panics on a poisoned Mutex,     *)
(* otherwise the entry is inserted and the guard dropped at once.          *)
(***************************************************************************)
InMemoryClient_dispatch_blob(self, batch_number, data) ==
    /\ backend = "InMemory"
    /\ self \in DOMAIN handles
    /\ LET commitment == Commitment_from_blob(data)
           arc == handles[self].storage
           done(out) == [Call("dispatch_blob", batch_number, data, out)
                            EXCEPT !.handle = self]
       IN  IF commitment.kind # "ok"
           THEN /\ last' = done(Err(FALSE))
                /\ UNCHANGED <<backend, heap, handles, chain, calls>>
           ELSE LET blob_id == make_blob_id(0, commitment.val)
                IN  IF heap[arc].poisoned
                    THEN /\ last' = done(Panic)
                         /\ UNCHANGED <<backend, heap, handles, chain, calls>>
                    ELSE /\ Cardinality(DOMAIN heap[arc].data \cup {blob_id})
                              <= MaxStored
                         /\ heap' = [heap EXCEPT
                                ![arc].data = Insert(@, blob_id, data)]
                         /\ last' = done(Ok(blob_id))
                         /\ UNCHANGED <<backend, handles, chain, calls>>

(***************************************************************************)
(* InMemoryClient::get_inclusion_data, with the guard held: the result of  *)
(* the body on the map `store`.                                            *)
(***************************************************************************)
get_inclusion_data_locked(store, blob_id) ==
    IF blob_id \notin DOMAIN store THEN NoneResult
    ELSE LET blob == store[blob_id]
             via == from_bytes(blob)
         IN  IF via.kind # "ok" THEN Ok(blob)
             ELSE IF via.val.chunks = 1 THEN Ok(via.val.data)
             ELSE LET blob_ids == deserialize_blob_ids(via.val.data)
                  IN  IF blob_ids.kind = "panic" THEN Panic
                      ELSE IF blob_ids.kind # "ok" THEN Err(FALSE)
                      ELSE IF Len(blob_ids.val) # via.val.chunks THEN Err(FALSE)
                      ELSE IF \E i \in 1..Len(blob_ids.val) :
                                  blob_ids.val[i] \notin DOMAIN store
                           THEN Err(FALSE)
                      ELSE Ok(Concat([i \in 1..Len(blob_ids.val) |->
                                         store[blob_ids.val[i]]]))

(***************************************************************************)
(* InMemoryClient::get_inclusion_data.  storage.lock().unwrap() panics on  *)
(* a poisoned Mutex; the guard lives to the end of the function, so a      *)
(* panic in the body poisons the Mutex.                                    *)
(***************************************************************************)
InMemoryClient_get_inclusion_data(self, blob_id) ==
    /\ backend = "InMemory"
    /\ self \in DOMAIN handles
    /\ LET arc == handles[self].storage
           out == IF heap[arc].poisoned THEN Panic
                  ELSE get_inclusion_data_locked(heap[arc].data, blob_id)
       IN  /\ last' = [Call("get_inclusion_data", 0, blob_id, out)
                          EXCEPT !.handle = self]
           /\ heap' = [heap EXCEPT
                  ![arc] = MutexGuard_drop(@, out.kind = "panic")]
           /\ UNCHANGED <<backend, handles, chain, calls>>

(***************************************************************************)
(* InMemoryClient::clone_boxed: Box::new(self.clone()).                    *)
(***************************************************************************)
InMemoryClient_clone_boxed(self) ==
    /\ backend = "InMemory"
    /\ self \in DOMAIN handles
    /\ Len(handles) < MaxHandles
    /\ handles' = Append(handles, InMemoryClient_clone(handles[self]))
    /\ last' = [Call("clone_boxed", 0, <<>>, Ok(Len(handles) + 1))
                   EXCEPT !.handle = self]
    /\ UNCHANGED <<backend, heap, chain, calls>>

(***************************************************************************)
(* InMemoryClient::ping.                                                   *)
(***************************************************************************)
InMemoryClient_ping(self) ==
    /\ backend = "InMemory"
    /\ self \in DOMAIN handles
    /\ last' = [Call("ping", 0, <<>>, Ok(TRUE)) EXCEPT !.handle = self]
    /\ UNCHANGED <<backend, heap, handles, chain, calls>>

(***************************************************************************)
(* The Celestia node: blob_submit includes the blob in the next block or   *)
(* fails; blob_get returns the blob at that height with that commitment or *)
(* fails.  Whether the node answers is the environment's choice.           *)
(***************************************************************************)
HeightOf(i) == FirstHeight + i

blob_get(node_ok, block_height, commitment) ==
    IF node_ok /\ \E i \in 1..Len(chain) :
                      HeightOf(i) = block_height /\ chain[i].commitment = commitment
    THEN Ok((CHOOSE e \in {chain[i] : i \in 1..Len(chain)} :
                e.commitment = commitment /\ e.height = block_height).data)
    ELSE [kind |-> "rpc_error"]

(***************************************************************************)
(* CelestiaClient::dispatch_blob.                                          *)
(***************************************************************************)
CelestiaClient_dispatch_blob(batch_number, data, node_ok) ==
    /\ backend = "Celestia"
    /\ LET blob == Blob_new(data)
           commitment == Commitment_from_blob(data)
       IN  IF blob.kind # "ok" \/ commitment.kind # "ok"
           THEN /\ last' = Call("dispatch_blob", batch_number, data, Err(FALSE))
                /\ UNCHANGED <<backend, heap, handles, chain, calls>>
           ELSE IF ~node_ok
           THEN /\ last' = [Call("dispatch_blob", batch_number, data, Err(TRUE))
                               EXCEPT !.rpc = "failed"]
                /\ UNCHANGED <<backend, heap, handles, chain, calls>>
           ELSE /\ Len(chain) < MaxHeight
                /\ LET block_height == HeightOf(Len(chain) + 1)
                   IN  /\ chain' = Append(chain,
                              [height |-> block_height,
                               commitment |-> commitment.val, data |-> data])
                       /\ last' = [Call("dispatch_blob", batch_number, data,
                               Ok(make_blob_id(block_height, commitment.val)))
                                    EXCEPT !.rpc = "ok"]
                /\ UNCHANGED <<backend, heap, handles, calls>>

(***************************************************************************)
(* CelestiaClient::get_inclusion_data: the same decoding as parse_blob_id, *)
(* written inline, then blob_get.                                          *)
(***************************************************************************)
CelestiaClient_get_inclusion_data(blob_id, node_ok) ==
    /\ backend = "Celestia"
    /\ LET blob_id_bytes == hex_decode(blob_id)
           done(rpc, out) == [Call("get_inclusion_data", 0, blob_id, out)
                                 EXCEPT !.rpc = rpc]
           end ==
               IF blob_id_bytes.kind # "ok" THEN done("none", Err(FALSE))
               ELSE IF ~InRange(blob_id_bytes.val, 0, 8) THEN done("none", Panic)
               ELSE IF ~InRange(blob_id_bytes.val, 8, 40) THEN done("none", Panic)
               ELSE LET block_height == from_be_bytes(Slice(blob_id_bytes.val, 0, 8))
                        commitment_data == Slice(blob_id_bytes.val, 8, 40)
                        blob == blob_get(node_ok, block_height, commitment_data)
                    IN  IF blob.kind # "ok" THEN done("failed", Err(TRUE))
                        ELSE done("ok", Ok(blob.val))
       IN  /\ last' = end
           /\ UNCHANGED <<backend, heap, handles, chain, calls>>

\* client.header_network_head(): the head of the chain, or a failure.
header_network_head(node_ok) ==
    IF node_ok THEN Ok(Len(chain)) ELSE [kind |-> "rpc_error"]

\* A ping that passes the failure of the probe on to its caller.
ping_result_raising(head) ==
    IF head.kind = "ok" THEN Ok(TRUE) ELSE Err(TRUE)

\* The match of CelestiaClient::ping: Ok(_) => Ok(true), Err(_) => Ok(false).
ping_result(head) ==
    IF head.kind = "ok" THEN Ok(TRUE) ELSE Ok(FALSE)

(***************************************************************************)
(* CelestiaClient::ping.                                                   *)
(***************************************************************************)
CelestiaClient_ping(node_ok) ==
    /\ backend = "Celestia"
    /\ LET head == header_network_head(node_ok)
       IN  last' = [Call("ping", 0, <<>>, ping_result(head))
                      EXCEPT !.rpc = IF head.kind = "ok" THEN "ok" ELSE "failed"]
    /\ UNCHANGED <<backend, heap, handles, chain, calls>>

(***************************************************************************)
(* A call of parse_blob_id.                                                *)
(***************************************************************************)
ParseBlobId(blob_id) ==
    /\ last' = Call("parse_blob_id", 0, blob_id, parse_blob_id(blob_id))
    /\ UNCHANGED <<backend, heap, handles, chain, calls>>

Next ==
    \/ \E self \in Clients, b \in BatchNumbers, d \in Payloads :
           InMemoryClient_dispatch_blob(self, b, d)
    \/ \E self \in Clients, id \in InMemoryIds :
           InMemoryClient_get_inclusion_data(self, id)
    \/ \E self \in Clients : InMemoryClient_ping(self)
    \/ \E b \in BatchNumbers, d \in CelestiaPayloads, node_ok \in BOOLEAN :
           CelestiaClient_dispatch_blob(b, d, node_ok)
    \/ \E id \in CelestiaIds, node_ok \in BOOLEAN :
           CelestiaClient_get_inclusion_data(id, node_ok)
    \/ \E node_ok \in BOOLEAN : CelestiaClient_ping(node_ok)

\* The service: the client the configuration selects, called in any order.
Spec == Init /\ [][Next]_vars

(***************************************************************************)
(* The locator codec: the Celestia client, which builds and decodes        *)
(* locators, and parse_blob_id on its own.                                 *)
(***************************************************************************)
InitCodec == Init /\ backend = "Celestia"

NextCodec ==
    \/ \E b \in BatchNumbers, d \in CelestiaPayloads, node_ok \in BOOLEAN :
           CelestiaClient_dispatch_blob(b, d, node_ok)
    \/ \E id \in CelestiaIds, node_ok \in BOOLEAN :
           CelestiaClient_get_inclusion_data(id, node_ok)
    \/ \E id \in ParseIds : ParseBlobId(id)

SpecCodec == InitCodec /\ [][NextCodec]_vars

(***************************************************************************)
(* The in-memory client and its duplicates: clone_boxed, and dispatches    *)
(* and fetches made through any of the handles.                            *)
(***************************************************************************)
HandlePayloads == {Leaf1, Leaf2, ZeroBlob, TruncatedBlob}

HandleIds == {BlobIdOf(d) : d \in HandlePayloads} \cup {Str_does_not_exist}

InitHandles == Init /\ backend = "InMemory"

NextHandles ==
    \/ \E self \in Clients : InMemoryClient_clone_boxed(self)
    \/ \E self \in Clients, d \in HandlePayloads :
           InMemoryClient_dispatch_blob(self, 1, d)
    \/ \E self \in Clients, id \in HandleIds :
           InMemoryClient_get_inclusion_data(self, id)

SpecHandles == InitHandles /\ [][NextHandles]_vars

(***************************************************************************)
(* The in-memory client under concurrent calls.  Each task makes one call  *)
(* and a call goes through the steps at which other tasks can see or       *)
(* change the Mutex:                                                       *)
(*   "idle"    no call yet                                                 *)
(*   "lock"    at self.storage.lock().unwrap(), waiting for the Mutex      *)
(*   "locked"  holding the guard, the map not yet touched                  *)
(*   "unlock"  get_inclusion_data's body has run and the guard is still    *)
(*             alive: it is dropped when the function returns or unwinds   *)
(*   "done"    the call returned or panicked                               *)
(***************************************************************************)
LockPayloads == {Leaf1, TruncatedBlob}

LockIds == {BlobIdOf(d) : d \in LockPayloads}

InitLock == Init /\ backend = "InMemory"

\* The call as `last` records it once it has ended.
Ended(call) ==
    [Call(call.op, call.batch_number, call.arg, call.out)
        EXCEPT !.handle = call.self]

\* A task calls dispatch_blob or get_inclusion_data on a handle.  What
\* dispatch_blob does before line 62 touches no shared state: it computes
\* the blob id of its data.
Task_call(c, self, op, batch_number, arg) ==
    /\ backend = "InMemory"
    /\ self \in DOMAIN handles
    /\ calls[c].pc = "idle"
    /\ calls' = [calls EXCEPT ![c] =
           [pc |-> "lock", self |-> self, op |-> op,
            batch_number |-> batch_number, arg |-> arg,
            blob_id |-> IF op = "dispatch_blob" THEN BlobIdOf(arg) ELSE arg,
            out |-> NoneResult]]
    /\ UNCHANGED <<backend, heap, handles, chain, last>>

\* self.storage.lock().unwrap(): blocks while a guard is alive; on a
\* poisoned Mutex lock() returns Err, unwrap panics and the guard inside the
\* error is dropped by the unwinding.
Task_lock(c) ==
    /\ calls[c].pc = "lock"
    /\ LET arc == handles[calls[c].self].storage
       IN  /\ ~heap[arc].locked
           /\ IF heap[arc].poisoned
              THEN /\ calls' = [calls EXCEPT ![c].pc = "done", ![c].out = Panic]
                   /\ last' = Ended(calls'[c])
                   /\ UNCHANGED <<backend, heap, handles, chain>>
              ELSE /\ heap' = [heap EXCEPT ![arc].locked = TRUE]
                   /\ calls' = [calls EXCEPT ![c].pc = "locked"]
                   /\ UNCHANGED <<backend, handles, chain, last>>

\* dispatch_blob, the rest of line 62: insert, and the temporary guard is
\* dropped at the end of the statement.
Task_insert(c) ==
    /\ calls[c].pc = "locked"
    /\ calls[c].op = "dispatch_blob"
    /\ LET arc == handles[calls[c].self].storage
           blob_id == calls[c].blob_id
       IN  /\ heap' = [heap EXCEPT ![arc] =
                  MutexGuard_drop(
                      [@ EXCEPT !.data = Insert(@, blob_id, calls[c].arg)], FALSE)]
           /\ calls' = [calls EXCEPT ![c].pc = "done", ![c].out = Ok(blob_id)]
           /\ last' = Ended(calls'[c])
           /\ UNCHANGED <<backend, handles, chain>>

\* get_inclusion_data, lines 70-119, with the guard of line 68 alive.
Task_get(c) ==
    /\ calls[c].pc = "locked"
    /\ calls[c].op = "get_inclusion_data"
    /\ LET arc == handles[calls[c].self].storage
       IN  calls' = [calls EXCEPT ![c].pc = "unlock",
                 ![c].out = get_inclusion_data_locked(heap[arc].data, calls[c].arg)]
    /\ UNCHANGED <<backend, heap, handles, chain, last>>

\* get_inclusion_data returns or unwinds: the guard of line 68 is dropped.
Task_return(c) ==
    /\ calls[c].pc = "unlock"
    /\ LET arc == handles[calls[c].self].storage
       IN  heap' = [heap EXCEPT ![arc] =
                MutexGuard_drop(@, calls[c].out.kind = "panic")]
    /\ calls' = [calls EXCEPT ![c].pc = "done"]
    /\ last' = Ended(calls'[c])
    /\ UNCHANGED <<backend, handles, chain>>

\* The steps of a call once made.
Task_step(c) == Task_lock(c) \/ Task_insert(c) \/ Task_get(c) \/ Task_return(c)

NextLock ==
    \/ \E c \in Tasks, self \in Clients, d \in LockPayloads :
           Task_call(c, self, "dispatch_blob", 1, d)
    \/ \E c \in Tasks, self \in Clients, id \in LockIds :
           Task_call(c, self, "get_inclusion_data", 0, id)
    \/ \E c \in Tasks : Task_lock(c)
    \/ \E c \in Tasks : Task_insert(c)
    \/ \E c \in Tasks : Task_get(c)
    \/ \E c \in Tasks : Task_return(c)

\* A task that can take a step takes one: the runtime keeps polling a
\* future that is ready, and no step waits for anything but the Mutex.
SpecLock ==
    InitLock /\ [][NextLock]_vars /\ \A c \in Tasks : WF_vars(Task_step(c))

(***************************************************************************)
(* Properties.                                                             *)
(***************************************************************************)
IsMemFetch == backend = "InMemory" /\ last.op = "get_inclusion_data"

\* An identifier that is not hex, or decodes to fewer than 40 bytes.
IsShort(blob_id) ==
    hex_decode(blob_id).kind = "ok" /\ Len(hex_decode(blob_id).val) < 40

IsMalformed(blob_id) == hex_decode(blob_id).kind # "ok" \/ IsShort(blob_id)

\* C1: on the in-memory backend, in every reachable state, fetching the
\* identifier a dispatch of D returned yields Some(InclusionData {data: D}).
C1_RoundTrip ==
    (IsMemFetch /\ last.arg \in DOMAIN storage)
        => last.out = Ok(storage[last.arg])

\* C2: on every backend, get_inclusion_data of a malformed identifier (not
\* hex, or too short once decoded) returns a fatal DAError, never Ok(None).
C2_MalformedIsFatal ==
    (last.op = "get_inclusion_data" /\ IsMalformed(last.arg))
        => last.out = Err(FALSE)

\* C3: on the in-memory backend, in every reachable state, fetching an
\* identifier that is no key of the map returns Ok(None).
C3_UnknownIsNone ==
    (IsMemFetch /\ last.arg \notin DOMAIN storage) => last.out = NoneResult

\* C4: decoding a locator whose hex-decoded length is below 40 returns a
\* fatal DAError: no pair, and no other way of ending.
C4_ShortIsFatal ==
    (last.op \in {"parse_blob_id", "get_inclusion_data"} /\ IsShort(last.arg))
        => last.out = Err(FALSE)

IsLowerHex(str) == \A i \in 1..Len(str) : \E j \in 1..16 : HexLower[j] = str[i]

\* C5: decoding hex(position as 8 big-endian bytes ++ 32-byte commitment)
\* returns exactly (position, commitment); that identifier is 80 lowercase
\* hex characters; bytes after the 40th do not change the decoded pair.  The
\* identifier the Celestia client returns from a dispatch is such a locator.
C5_CodecRoundTrip ==
    /\ last.op = "parse_blob_id" =>
         \A p \in Positions, c \in Commitments, t \in Trailers :
            last.arg = Locator(p, c, t) =>
               /\ last.out = Ok([commitment |-> c, block_height |-> p])
               /\ (t = <<>> => Len(last.arg) = 80 /\ IsLowerHex(last.arg))
    /\ (backend = "Celestia" /\ last.op = "dispatch_blob" /\ last.out.kind = "ok") =>
         /\ Len(last.out.val) = 80
         /\ IsLowerHex(last.out.val)
         /\ parse_blob_id(last.out.val) =
               Ok([commitment |-> Commitment_from_blob(last.arg).val,
                   block_height |-> HeightOf(Len(chain))])

\* A locator with a multi-byte position and bytes after the 40th was decoded.
C5_Witness ==
    /\ last.op = "parse_blob_id"
    /\ last.arg = Locator(258, Digest(1), <<0, 255>>)
    /\ last.out.kind = "ok"

\* The stored blob under blob_id, read as a pointer: its ViaDaBlob.
StoredVia(blob_id) == from_bytes(storage[blob_id])

\* C6: once leaves c1..ck (k > 1) and the pointer blob built from their
\* identifiers in order are dispatched, fetching the pointer's identifier
\* returns concat(c1, ..., ck), whatever else was dispatched.
C6_ChunkReconstruction ==
    \A l \in ChunkLists :
        (/\ IsMemFetch
         /\ last.arg = BlobIdOf(PointerBlob(Len(l), l))
         /\ last.arg \in DOMAIN storage
         /\ \A i \in 1..Len(l) : BlobIdOf(l[i]) \in DOMAIN storage)
            => last.out = Ok(Concat(l))

\* The number of whole length-prefixed identifiers in a pointer's payload.
RECURSIVE DecodedCount(_, _)
DecodedCount(data, pos) ==
    IF ~InRange(data, pos, pos + 4) THEN 0
    ELSE LET len == from_be_bytes(Slice(data, pos, pos + 4))
         IN  IF ~InRange(data, pos + 4, pos + 4 + len) THEN 0
             ELSE 1 + DecodedCount(data, pos + 4 + len)

\* C7: fetching a stored blob that reads as a ViaDaBlob with chunks # 1 and
\* whose payload holds a number of identifiers other than chunks returns a
\* fatal DAError: never content, never Ok(None).
C7_MismatchIsFatal ==
    (/\ IsMemFetch
     /\ last.arg \in DOMAIN storage
     /\ StoredVia(last.arg).kind = "ok"
     /\ StoredVia(last.arg).val.chunks # 1
     /\ DecodedCount(StoredVia(last.arg).val.data, 0) # StoredVia(last.arg).val.chunks)
        => last.out = Err(FALSE)

\* C8: fetching a stored pointer blob whose list has the declared length but
\* names an identifier that is no key of the map returns a fatal DAError.
C8_MissingLeafIsFatal ==
    (/\ IsMemFetch
     /\ last.arg \in DOMAIN storage
     /\ StoredVia(last.arg).kind = "ok"
     /\ StoredVia(last.arg).val.chunks # 1
     /\ LET blob_ids == deserialize_blob_ids(StoredVia(last.arg).val.data)
        IN  /\ blob_ids.kind = "ok"
            /\ Len(blob_ids.val) = StoredVia(last.arg).val.chunks
            /\ \E i \in 1..Len(blob_ids.val) : blob_ids.val[i] \notin DOMAIN storage)
        => last.out = Err(FALSE)

\* C9: a dispatch of bytes that were dispatched before (they are stored
\* under the identifier that dispatch returned) returns that identifier
\* again, leaves a single entry for it, and the blob is fetched afterwards
\* as it was before.
C9_IdempotentDispatch ==
    [][\A k \in DOMAIN storage :
          (/\ backend = "InMemory"
           /\ last'.op = "dispatch_blob"
           /\ last'.arg = storage[k])
             => /\ last'.out = Ok(k)
                /\ storage' = storage
                /\ get_inclusion_data_locked(storage', k) =
                      get_inclusion_data_locked(storage, k)]_vars

\* C10: no step removes an entry or changes the bytes under an existing
\* identifier; a dispatch touches only the entry of the identifier it
\* returns and stores the dispatched bytes there; a fetch changes nothing;
\* dispatches of different bytes return different identifiers.
C10_AppendOnly ==
    [][/\ \A k \in DOMAIN storage :
             k \in DOMAIN storage' /\ storage'[k] = storage[k]
       /\ last'.op = "get_inclusion_data" => storage' = storage
       /\ (backend = "InMemory" /\ last'.op = "dispatch_blob" /\ last'.out.kind = "ok") =>
             /\ DOMAIN storage' = DOMAIN storage \cup {last'.out.val}
             /\ storage'[last'.out.val] = last'.arg
       /\ (/\ backend = "InMemory"
           /\ last.op = "dispatch_blob" /\ last.out.kind = "ok"
           /\ last'.op = "dispatch_blob" /\ last'.out.kind = "ok"
           /\ last.arg # last'.arg) => last.out.val # last'.out.val]_vars

\* Two blobs are stored, and a third call has just fetched one of them.
C10_Witness ==
    /\ Cardinality(DOMAIN storage) >= 2
    /\ IsMemFetch
    /\ last.out.kind = "ok"

\* The map behind handle h.
StorageOf(h) == heap[handles[h].storage].data

\* C11: after any number of clone_boxed calls, a blob dispatched through one
\* handle (it is stored behind that handle, under the identifier the
\* dispatch returned) is fetched through every handle, under that
\* identifier, as Some of the bytes dispatched.
C11_ClonesShareStorage ==
    \A h \in DOMAIN handles :
        (/\ IsMemFetch
         /\ last.arg \in DOMAIN StorageOf(h))
            => last.out = Ok(StorageOf(h)[last.arg])

\* The task holds a guard of the Mutex.
InSection(c) == calls[c].pc \in {"locked", "unlock"}

Returned(c) ==
    calls[c].pc = "done" /\ calls[c].out.kind \in {"ok", "none", "err"}

\* C12: under any interleaving of dispatch and fetch calls on one store, at
\* most one call holds the guard at a time; the Mutex is locked exactly
\* while a call is between its lock and the end of its map access, so it is
\* released on every exit path; a call ends only by returning content,
\* not-found or an error; and every call that was made ends.
C12_ExclusiveSection ==
    /\ [](\A c, d \in Tasks : InSection(c) /\ InSection(d) => c = d)
    /\ [](heap[InMemoryClient_new.arc].locked <=> \E c \in Tasks : InSection(c))
    /\ [](\A c \in Tasks : calls[c].pc = "done" => Returned(c))
    /\ \A c \in Tasks : (calls[c].pc # "idle") ~> (calls[c].pc = "done")

IsCelestiaCall ==
    backend = "Celestia" /\ last.op \in {"dispatch_blob", "get_inclusion_data"}

\* C13: on the Celestia backend a call whose request to the node failed
\* returns an error with is_retriable = true; a call that failed before any
\* request (building the blob or the commitment, decoding the identifier)
\* returns an error with is_retriable = false; and a call fails in no other
\* way than by returning such an error.
C13_ErrorClassification ==
    IsCelestiaCall =>
        /\ last.rpc = "failed" => last.out = Err(TRUE)
        /\ (last.op = "dispatch_blob" /\ last.rpc = "none") => last.out = Err(FALSE)
        /\ (last.op = "get_inclusion_data" /\ IsMalformed(last.arg))
               => last.out = Err(FALSE)
        /\ last.out.kind \in {"ok", "none", "err"}

\* C14: a ping never fails.  On the in-memory backend it returns Ok(true) in
\* every reachable state, a poisoned Mutex included; on the Celestia backend
\* it returns Ok(true) when header_network_head succeeded and Ok(false) when
\* it failed.
C14_PingNeverRaises ==
    last.op = "ping" =>
        /\ backend = "InMemory" => last.out = Ok(TRUE)
        /\ backend = "Celestia" =>
              /\ last.rpc \in {"ok", "failed"}
              /\ last.rpc = "ok" => last.out = Ok(TRUE)
              /\ last.rpc = "failed" => last.out = Ok(FALSE)

\* The node has accepted a blob and no longer answers: the probe of a ping
\* failed, and the ping returned Ok(false).
C14_Witness ==
    /\ backend = "Celestia"
    /\ Len(chain) > 0
    /\ last.op = "ping"
    /\ last.rpc = "failed"
    /\ last.out = Ok(FALSE)

\* What get_inclusion_data returns, in this state, for blob_id on its own.
FetchAlone(blob_id) ==
    IF poisoned THEN Panic ELSE get_inclusion_data_locked(storage, blob_id)

\* The identifiers a stored pointer lists: the blob reads as a ViaDaBlob with
\* chunks # 1, its list decodes to chunks identifiers, and all are keys.
ListedIn(blob_id) ==
    IF blob_id \notin DOMAIN storage \/ StoredVia(blob_id).kind # "ok" THEN <<>>
    ELSE IF StoredVia(blob_id).val.chunks = 1 THEN <<>>
    ELSE LET blob_ids == deserialize_blob_ids(StoredVia(blob_id).val.data)
         IN  IF /\ blob_ids.kind = "ok"
                /\ Len(blob_ids.val) = StoredVia(blob_id).val.chunks
                /\ \A i \in 1..Len(blob_ids.val) : blob_ids.val[i] \in DOMAIN storage
             THEN blob_ids.val
             ELSE <<>>

\* C15: fetching a stored pointer whose listed identifiers are all present
\* and whose count matches returns the concatenation, in list order, of
\* what a fetch of each listed identifier returns on its own.
C15_PointerAgreesWithLeaves ==
    (/\ IsMemFetch
     /\ ListedIn(last.arg) # <<>>
     /\ \A i \in 1..Len(ListedIn(last.arg)) :
            FetchAlone(ListedIn(last.arg)[i]).kind = "ok")
        => last.out = Ok(Concat([i \in 1..Len(ListedIn(last.arg)) |->
                                   FetchAlone(ListedIn(last.arg)[i]).val]))

\* C16: whatever bytes were dispatched, every dispatch_blob and every
\* get_inclusion_data on any handle of the in-memory store ends by
\* returning: an identifier, content, not-found or a DAError.  No call
\* panics, so no fetch leaves the store unusable for the calls after it.
C16_FetchKeepsStoreUsable ==
    (/\ backend = "InMemory"
     /\ last.op \in {"dispatch_blob", "get_inclusion_data"})
        => last.out.kind \in {"ok", "none", "err"}

(***************************************************************************)
(* What the in-memory client does while its Mutex is not poisoned.         *)
(***************************************************************************)
\* A stored payload that does not read as a ViaDaBlob is fetched as stored.
NotPoisoned_RawRoundTrip ==
    (/\ ~poisoned /\ IsMemFetch /\ last.arg \in DOMAIN storage
     /\ StoredVia(last.arg).kind # "ok") => last.out = Ok(storage[last.arg])

\* An identifier that is no key is fetched as Ok(None).
NotPoisoned_UnknownIsNone == ~poisoned => C3_UnknownIsNone

\* A pointer whose leaves are stored is fetched as their concatenation.
NotPoisoned_ChunkReconstruction == ~poisoned => C6_ChunkReconstruction

\* A pointer with a missing leaf is fetched as a fatal error.
NotPoisoned_MissingLeafIsFatal == ~poisoned => C8_MissingLeafIsFatal

\* A well-formed list whose length differs from chunks is a fatal error.
NotPoisoned_MismatchIsFatal ==
    (/\ ~poisoned /\ IsMemFetch /\ last.arg \in DOMAIN storage
     /\ StoredVia(last.arg).kind = "ok"
     /\ StoredVia(last.arg).val.chunks # 1
     /\ deserialize_blob_ids(StoredVia(last.arg).val.data).kind = "ok"
     /\ Len(deserialize_blob_ids(StoredVia(last.arg).val.data).val)
            # StoredVia(last.arg).val.chunks) => last.out = Err(FALSE)

\* A dispatch of bytes already stored returns the identifier they are stored
\* under and leaves the map as it was.
NotPoisoned_IdempotentDispatch ==
    [][~poisoned' =>
          \A k \in DOMAIN storage :
             (/\ backend = "InMemory"
              /\ last'.op = "dispatch_blob"
              /\ last'.arg = storage[k])
                => last'.out = Ok(k) /\ storage' = storage]_vars

(***************************************************************************)
(* What holds of the handles, of the lock, of the Celestia client's        *)
(* errors and of pointers, next to the claims above that do not.           *)
(***************************************************************************)
\* Every handle points to the allocation InMemoryClient::new made.
Handles_ShareOneAllocation ==
    \A h \in DOMAIN handles : handles[h].storage = InMemoryClient_new.arc

\* Through whichever handle: a stored payload that does not read as a
\* ViaDaBlob is fetched as stored, whichever handle stored it.
NotPoisoned_ClonesShareStorage ==
    \A h \in DOMAIN handles :
        (/\ ~poisoned /\ IsMemFetch /\ last.arg \in DOMAIN StorageOf(h)
         /\ from_bytes(StorageOf(h)[last.arg]).kind # "ok")
            => last.out = Ok(StorageOf(h)[last.arg])

\* The lock discipline: one guard at a time, the Mutex locked exactly while
\* a call holds its guard, and every call that was made ends, by returning
\* or by unwinding.
Lock_Discipline ==
    /\ [](\A c, d \in Tasks : InSection(c) /\ InSection(d) => c = d)
    /\ [](heap[InMemoryClient_new.arc].locked <=> \E c \in Tasks : InSection(c))
    /\ \A c \in Tasks : (calls[c].pc # "idle") ~> (calls[c].pc = "done")

\* While the Mutex is not poisoned every call that ended has returned.
NotPoisoned_CallsReturn ==
    \A c \in Tasks : (~poisoned /\ calls[c].pc = "done") => Returned(c)

\* The Celestia client classifies every failure of a call whose identifier,
\* if it is hex, decodes to 40 bytes or more.
LongEnough_ErrorClassification ==
    (IsCelestiaCall /\ (last.op = "get_inclusion_data" => ~IsShort(last.arg)))
        => C13_ErrorClassification

\* A pointer whose leaves do not read as a ViaDaBlob is fetched as the
\* concatenation of what the fetches of its leaves return.
RawLeaves_PointerAgreesWithLeaves ==
    (\A i \in 1..Len(ListedIn(last.arg)) :
        from_bytes(storage[ListedIn(last.arg)[i]]).kind # "ok")
        => C15_PointerAgreesWithLeaves

\* The Mutex is poisoned only once a blob is stored that reads as a ViaDaBlob
\* with chunks # 1 over a list that ends inside an identifier.
Poisoned_OnlyByTruncatedList ==
    poisoned =>
        \E k \in DOMAIN storage :
            /\ StoredVia(k).kind = "ok"
            /\ StoredVia(k).val.chunks # 1
            /\ deserialize_blob_ids(StoredVia(k).val.data).kind = "panic"

====
